---- MODULE Spec2Model ----
(***************************************************************************)
(* Model of the persisted-scope plugin (plugins/persisted-scope/src/lib.rs) *)
(*                                                                         *)
(* The plugin's setup hook forbids its own state file in the host's scope  *)
(* managers, loads the persisted Scope from disk, replays it into the host *)
(* and then registers a listener on the primary scope manager that records *)
(* every PathAllowed / PathForbidden event into the Scope (behind a Mutex) *)
(* and rewrites the state file.                                            *)
(*                                                                         *)
(* Strings (paths, glob patterns) are sequences of character codes; the    *)
(* state file is a sequence of numbers, one per bincode field (a length, a *)
(* character, an enum variant index).                                      *)
(***************************************************************************)
EXTENDS Integers, Sequences, FiniteSets, TLC

\* ------------------------------------------------------------------------
\* Bounds of the model
\* ------------------------------------------------------------------------

\* number of scope-manager calls the host application makes over all sessions
MaxCalls == 2

\* number of times the process is stopped (or crashes) and started again
MaxRestarts == 1

\* number of faults injected over all sessions: a scope-manager call that
\* returns an error, a failed read, create or write of the state file, a
\* panic inside the handler
MaxFaults == 1

\* host threads that may call into the scope manager concurrently
Threads == {1, 2}

\* ------------------------------------------------------------------------
\* Characters and strings
\* ------------------------------------------------------------------------

\* std::path::MAIN_SEPARATOR on unix, '/'
MAIN_SEPARATOR == 47

\* the '*' appended to the escaped path in scope_path_from_patterns
Star == 42

\* U+FFFD, what to_string_lossy puts in place of a byte that is not UTF-8
ReplacementChar == 65533

\* ".persisted-scope", abbreviated to ".p"
SCOPE_STATE_FILENAME == <<46, 112>>

\* the resolved app-data directory, "/d"
AppDataDir == <<47, 100>>

\* PathBuf::join
Join(dir, name) == dir \o <<MAIN_SEPARATOR>> \o name

\* app_dir.join(SCOPE_STATE_FILENAME)
scope_state_path == Join(AppDataDir, SCOPE_STATE_FILENAME)

\* paths the host application works with: "/a" and the state file
UserPaths == {<<47, 97>>}

Paths == UserPaths \cup {scope_state_path}

RECURSIVE Concat(_)
Concat(ss) == IF ss = <<>> THEN <<>> ELSE Head(ss) \o Concat(Tail(ss))

\* glob::Pattern::escape: ? * [ ] become [?] [*] [[] []]
Escape(s) ==
    Concat([i \in 1..Len(s) |->
              IF s[i] \in {63, 42, 91, 93} THEN <<91, s[i], 93>> ELSE <<s[i]>>])

\* a character a String can hold (every other code stands for a stray byte)
ValidChar(c) == (c >= 0 /\ c < 128) \/ c = ReplacementChar

\* Path::to_string_lossy: bytes that are not UTF-8 become U+FFFD
ToStringLossy(path) ==
    [i \in 1..Len(path) |-> IF ValidChar(path[i]) THEN path[i] ELSE ReplacementChar]

\* str::contains
Contains(s, sub) ==
    \E i \in 0..(Len(s) - Len(sub)) : SubSeq(s, i + 1, i + Len(sub)) = sub

\* str::ends_with
EndsWith(s, suf) ==
    /\ Len(suf) <= Len(s)
    /\ SubSeq(s, Len(s) - Len(suf) + 1, Len(s)) = suf

\* ------------------------------------------------------------------------
\* Data model
\* ------------------------------------------------------------------------

TargetType == {"File", "Directory", "RecursiveDirectory"}

ScopePath(path, target_type) == [path |-> path, target_type |-> target_type]

\* Scope::default()
DefaultScope == [allowed_paths |-> {}, forbidden_paths |-> {}]

\* Insert as a map keyed by path would do it: the new entry replaces the
\* entries of the same path
InsertOverwrite(set, scope_path) ==
    {e \in set : e.path # scope_path.path} \cup {scope_path}

\* Insert done as a toggle: an entry that is already there is removed
InsertToggle(set, scope_path) ==
    IF scope_path \in set THEN set \ {scope_path} ELSE set \cup {scope_path}

\* HashSet::insert on a set of ScopePath (Eq/Hash over both fields)
Insert(set, scope_path) == set \cup {scope_path}

\* ------------------------------------------------------------------------
\* Codec (bincode, fixed-width integers, trailing bytes allowed)
\* ------------------------------------------------------------------------

\* variant index serde gives each TargetType
VariantIndex(t) ==
    CASE t = "File" -> 0
      [] t = "Directory" -> 1
      [] t = "RecursiveDirectory" -> 2

VariantOfSwapped(n) ==
    CASE n = 0 -> "File"
      [] n = 1 -> "RecursiveDirectory"
      [] n = 2 -> "Directory"

\* the variant a decoded index names
VariantOf(n) ==
    CASE n = 0 -> "File"
      [] n = 1 -> "Directory"
      [] n = 2 -> "RecursiveDirectory"

\* the orders in which a HashSet may be iterated
Orders(set) ==
    {s \in [1..Cardinality(set) -> set] :
        \A i, j \in 1..Cardinality(set) : s[i] = s[j] => i = j}

\* one ScopePath: the string (length, characters) then the variant index
EncodeEntry(e) == <<Len(e.path)>> \o e.path \o <<VariantIndex(e.target_type)>>

\* one HashSet<ScopePath> iterated in the given order: length, then entries
EncodeSet(order) ==
    <<Len(order)>> \o Concat([i \in 1..Len(order) |-> EncodeEntry(order[i])])

\* Serialize leaving out the second set
SerializeAllowedOnly(orderA, orderF) == EncodeSet(orderA)

\* bincode::serialize(&scope), with the iteration order of the two sets
Serialize(orderA, orderF) == EncodeSet(orderA) \o EncodeSet(orderF)

\* every byte string bincode::serialize may produce for a Scope
Encodings(scope) ==
    {Serialize(oa, of) : oa \in Orders(scope.allowed_paths),
                         of \in Orders(scope.forbidden_paths)}

\* read n entries starting after position pos; ok is FALSE on any error
RECURSIVE DecodeEntries(_, _, _, _)
DecodeEntries(bytes, pos, n, acc) ==
    IF n = 0 THEN [ok |-> TRUE, pos |-> pos, set |-> acc]
    ELSE IF pos + 1 > Len(bytes) THEN [ok |-> FALSE, pos |-> pos, set |-> {}]
    ELSE LET len == bytes[pos + 1]
         IN  IF len < 0 \/ pos + 1 + len + 1 > Len(bytes)
               THEN [ok |-> FALSE, pos |-> pos, set |-> {}]
             ELSE LET path == SubSeq(bytes, pos + 2, pos + 1 + len)
                      tag  == bytes[pos + 1 + len + 1]
                  IN  IF tag \notin 0..2 \/ \E i \in 1..len : ~ValidChar(path[i])
                        THEN [ok |-> FALSE, pos |-> pos, set |-> {}]
                      ELSE DecodeEntries(bytes, pos + len + 2, n - 1,
                                         Insert(acc, ScopePath(path, VariantOf(tag))))

\* one HashSet<ScopePath> starting after position pos
DecodeSet(bytes, pos) ==
    IF pos + 1 > Len(bytes) \/ bytes[pos + 1] < 0
      THEN [ok |-> FALSE, pos |-> pos, set |-> {}]
    ELSE DecodeEntries(bytes, pos + 1, bytes[pos + 1], {})

\* bincode::deserialize::<Scope>(&bytes)
Deserialize(bytes) ==
    LET a == DecodeSet(bytes, 0)
    IN  IF ~a.ok THEN [ok |-> FALSE, scope |-> DefaultScope]
        ELSE LET f == DecodeSet(bytes, a.pos)
             IN  IF ~f.ok THEN [ok |-> FALSE, scope |-> DefaultScope]
                 ELSE [ok |-> TRUE,
                       scope |-> [allowed_paths |-> a.set, forbidden_paths |-> f.set]]

\* LoadScope keeping the allowed set when only the forbidden set fails to
\* decode
LoadScopePartial(readOk, bytes) ==
    IF readOk /\ Deserialize(bytes).ok THEN Deserialize(bytes).scope
    ELSE IF readOk /\ DecodeSet(bytes, 0).ok
      THEN [allowed_paths |-> DecodeSet(bytes, 0).set, forbidden_paths |-> {}]
    ELSE DefaultScope

\* read_binary(..).and_then(deserialize).unwrap_or_default(): the decoded
\* Scope when both the read and the decoding succeed, else Scope::default()
LoadScope(readOk, bytes) ==
    IF readOk /\ Deserialize(bytes).ok THEN Deserialize(bytes).scope ELSE DefaultScope

\* ------------------------------------------------------------------------
\* The host's scope managers (tauri::FsScope), as the plugin uses them
\* ------------------------------------------------------------------------

EmptyManager == [allowed_patterns |-> {}, forbidden_patterns |-> {}]

\* the glob patterns one call adds: the escaped path and, for a directory,
\* the escaped path followed by the separator and "*" or "**"
PatternsOf(op, path, recursive) ==
    IF op \in {"allow_file", "forbid_file"}
      THEN {Escape(path)}
      ELSE {Escape(path),
            Escape(path) \o <<MAIN_SEPARATOR>> \o
              (IF recursive THEN <<Star, Star>> ELSE <<Star>>)}

IsAllowOp(op) == op \in {"allow_file", "allow_directory"}

\* the effect of a scope-manager call that returned Ok
Apply(mgr, op, path, recursive) ==
    IF IsAllowOp(op)
      THEN [mgr EXCEPT !.allowed_patterns = @ \cup PatternsOf(op, path, recursive)]
      ELSE [mgr EXCEPT !.forbidden_patterns = @ \cup PatternsOf(op, path, recursive)]

\* the event a successful call triggers on the manager's listeners
EventOf(op, path) ==
    [kind |-> IF IsAllowOp(op) THEN "PathAllowed" ELSE "PathForbidden",
     path |-> path]

\* the calls the host application may make: operation and recursive flag
HostOps ==
    {<<"allow_file", FALSE>>, <<"allow_directory", FALSE>>,
     <<"allow_directory", TRUE>>, <<"forbid_file", FALSE>>,
     <<"forbid_directory", FALSE>>, <<"forbid_directory", TRUE>>}

\* the calls the host application makes on a path: the state file is a file
OpsOn(path) ==
    IF path = scope_state_path
      THEN {o \in HostOps : o[1] \in {"allow_file", "forbid_file"}}
      ELSE HostOps

\* one call issued by the plugin, as recorded in the call log: the place in
\* setup that made it (src: "guard", "allowed", "forbidden"), the target type
\* of the entry it was made for, the manager, the operation and its result
Call(src, target_type, mgr, op, path, recursive, ok) ==
    [src |-> src, target_type |-> target_type, mgr |-> mgr, op |-> op,
     path |-> path, recursive |-> recursive, ok |-> ok]

\* ------------------------------------------------------------------------
\* Classification of an event's path
\* ------------------------------------------------------------------------

\* format!("{}{}{}", escaped_path, MAIN_SEPARATOR, '*')
PrePattern(path) == Escape(ToStringLossy(path)) \o <<MAIN_SEPARATOR, Star>>

\* the patterns for which the body of the `if` at line 131 runs
Matching(path, patterns) == {p \in patterns : Contains(p, PrePattern(path))}

\* the target type one matching pattern assigns
TypeOfPattern(p) ==
    IF EndsWith(p, <<Star, Star>>) THEN "RecursiveDirectory" ELSE "Directory"

\* TargetTypesFromPatterns starting from Directory instead of File
TargetTypesDirectoryDefault(path, patterns) ==
    IF Matching(path, patterns) = {} THEN {"Directory"}
    ELSE {TypeOfPattern(p) : p \in Matching(path, patterns)}

\* the target types scope_path_from_patterns may return: File when no
\* pattern matches, else the type of whichever matching pattern the HashSet
\* iteration visits last
TargetTypesFromPatterns(path, patterns) ==
    IF Matching(path, patterns) = {} THEN {"File"}
    ELSE {TypeOfPattern(p) : p \in Matching(path, patterns)}

\* the ScopePaths scope_path_from_patterns may return
scope_path_from_patterns(path, patterns) ==
    {ScopePath(ToStringLossy(path), t) : t \in TargetTypesFromPatterns(path, patterns)}

\* ------------------------------------------------------------------------
\* Replay dispatch
\* ------------------------------------------------------------------------

\* AllowedReplayOp with the recursive flags of the two directory arms
\* exchanged
AllowedReplayOpFlagsSwapped(target_type) ==
    CASE target_type = "File" ->
           [fs |-> <<"allow_file", FALSE>>, asset |-> <<"allow_file", FALSE>>]
      [] target_type = "Directory" ->
           [fs |-> <<"allow_directory", TRUE>>, asset |-> <<"allow_directory", TRUE>>]
      [] target_type = "RecursiveDirectory" ->
           [fs |-> <<"allow_directory", FALSE>>, asset |-> <<"allow_directory", FALSE>>]

\* the call the allowed_paths loop makes on each manager for a target type
\* (operation, recursive flag)
AllowedReplayOp(target_type) ==
    CASE target_type = "File" ->
           [fs |-> <<"allow_file", FALSE>>, asset |-> <<"allow_file", FALSE>>]
      [] target_type = "Directory" ->
           [fs |-> <<"allow_directory", FALSE>>, asset |-> <<"allow_directory", FALSE>>]
      [] target_type = "RecursiveDirectory" ->
           [fs |-> <<"allow_directory", TRUE>>, asset |-> <<"allow_directory", TRUE>>]

\* the call the forbidden_paths loop makes on each manager for a target type
ForbiddenReplayOp(target_type) ==
    CASE target_type = "File" ->
           [fs |-> <<"allow_file", FALSE>>, asset |-> <<"forbid_file", FALSE>>]
      [] target_type = "Directory" ->
           [fs |-> <<"forbid_directory", FALSE>>, asset |-> <<"forbid_directory", FALSE>>]
      [] target_type = "RecursiveDirectory" ->
           [fs |-> <<"forbid_directory", TRUE>>, asset |-> <<"forbid_directory", TRUE>>]

\* ------------------------------------------------------------------------
\* State
\* ------------------------------------------------------------------------

VARIABLES
    pc,                   \* position of the setup hook
    app_dir,              \* TRUE when app_data_dir() is Some
    protocol_asset,       \* TRUE when built with feature "protocol-asset"
    scope,                \* the Scope (setup's local, then the Mutex's content)
    loaded,               \* what this run read from the state file
    todoA,                \* allowed_paths entries the replay has yet to visit
    todoF,                \* forbidden_paths entries the replay has yet to visit
    calls,                \* scope-manager calls the plugin has issued this run
    fs_scope,             \* the host's primary scope manager
    asset_protocol_scope, \* the host's asset-protocol scope manager
    listening,            \* TRUE once fs_scope.listen has registered the handler
    file,                 \* the state file on disk
    mutex_scope,          \* the Mutex around the Scope
    tpc,                  \* position of each host thread
    ev,                   \* the event each host thread is delivering
    nCalls,               \* host calls made so far
    nRestarts,            \* restarts so far
    nFaults,              \* faults injected so far
    persisted             \* history: the outcome of the last write of the file

vars == <<pc, app_dir, protocol_asset, scope, loaded, todoA, todoF, calls,
          fs_scope, asset_protocol_scope, listening, file, mutex_scope,
          tpc, ev, nCalls, nRestarts, nFaults, persisted>>

\* kind and path are the event; matched, grants, entry and present record
\* what the handler found when it classified the path
NoEvent == [kind |-> "none", path |-> <<>>, matched |-> FALSE, grants |-> {},
            entry |-> ScopePath(<<>>, "File"), present |-> FALSE]

\* the mark left on a thread whose event the handler dropped
Dropped == [NoEvent EXCEPT !.kind = "dropped"]

\* history of the writes of the state file: the outcome of the last one and
\* the Scope it wrote, the entries whose write failed and that no write has
\* covered since, the ones the last completed write has covered, and the
\* Scope of the last write that ran to completion
NeverWritten == [status |-> "none", scope |-> DefaultScope,
                 unsaved |-> {}, recovered |-> {},
                 last |-> [ok |-> FALSE, scope |-> DefaultScope]]

\* an entry as the history names it
Piece(e) == [kind |-> e.kind, entry |-> e.entry]

NotLoaded == [status |-> "none", scope |-> DefaultScope]

Absent == [exists |-> FALSE, bytes |-> <<>>]

OnDisk(bytes) == [exists |-> TRUE, bytes |-> bytes]

\* state files a first run may find: none, an empty one, garbage, and one
\* that allows the state file itself and "/a" as a directory and forbids
\* "/a" as a file
InitFiles ==
    {Absent,
     OnDisk(<<>>),
     OnDisk(<<7, 7>>),
     OnDisk(Serialize(<<ScopePath(scope_state_path, "File"),
                        ScopePath(<<47, 97>>, "Directory")>>,
                      <<ScopePath(<<47, 97>>, "File")>>))}

\* what a fresh process starts with (everything but the disk)
Fresh ==
    /\ pc = "start"
    /\ scope = DefaultScope
    /\ loaded = NotLoaded
    /\ todoA = {}
    /\ todoF = {}
    /\ calls = <<>>
    /\ fs_scope = EmptyManager
    /\ asset_protocol_scope = EmptyManager
    /\ listening = FALSE
    /\ mutex_scope = [holder |-> 0, poisoned |-> FALSE]
    /\ tpc = [t \in Threads |-> "idle"]
    /\ ev = [t \in Threads |-> NoEvent]

Init ==
    /\ Fresh
    /\ app_dir \in BOOLEAN
    /\ protocol_asset \in BOOLEAN
    /\ file \in InitFiles
    /\ nCalls = 0
    /\ nRestarts = 0
    /\ nFaults = 0
    /\ persisted = NeverWritten

\* ------------------------------------------------------------------------
\* Setup hook
\* ------------------------------------------------------------------------

\* the calls made on the managers for one operation: always on fs_scope, on
\* asset_protocol_scope only with the feature
Issue(src, target_type, ops, path, okFs, okAsset) ==
    <<Call(src, target_type, "fs", ops.fs[1], path, ops.fs[2], okFs)>> \o
    (IF protocol_asset
       THEN <<Call(src, target_type, "asset", ops.asset[1], path, ops.asset[2], okAsset)>>
       ELSE <<>>)

\* a manager after the calls of `issued` addressed to it that returned Ok
RECURSIVE After(_, _, _)
After(mgr, name, issued) ==
    IF issued = <<>> THEN mgr
    ELSE LET c == Head(issued)
         IN  After(IF c.mgr = name /\ c.ok
                     THEN Apply(mgr, c.op, c.path, c.recursive) ELSE mgr,
                   name, Tail(issued))

\* the calls of a log that returned an error
Errors(log) == {i \in 1..Len(log) : ~log[i].ok}

HostAfter(issued) ==
    /\ nFaults + Cardinality(Errors(issued)) <= MaxFaults
    /\ nFaults' = nFaults + Cardinality(Errors(issued))
    /\ calls' = calls \o issued
    /\ fs_scope' = After(fs_scope, "fs", issued)
    /\ asset_protocol_scope' = After(asset_protocol_scope, "asset", issued)

\* Resolve that carries on to the guard without an app-data directory
ResolveAlways ==
    /\ pc = "start"
    /\ pc' = "guard"
    /\ UNCHANGED <<app_dir, protocol_asset, scope, loaded, todoA, todoF, calls,
                   fs_scope, asset_protocol_scope, listening, file,
                   mutex_scope, tpc, ev, nCalls, nRestarts, nFaults, persisted>>

\* app.path_resolver().app_data_dir(): None ends setup with Ok(())
Resolve ==
    /\ pc = "start"
    /\ pc' = IF app_dir THEN "guard" ELSE "ready"
    /\ UNCHANGED <<app_dir, protocol_asset, scope, loaded, todoA, todoF, calls,
                   fs_scope, asset_protocol_scope, listening, file,
                   mutex_scope, tpc, ev, nCalls, nRestarts, nFaults, persisted>>

\* Guard with the listener already registered: the forbid_file call is
\* recorded as an event
GuardRecorded ==
    /\ pc = "guard"
    /\ \E okFs, okAsset \in BOOLEAN :
         HostAfter(Issue("guard", "File",
                         [fs |-> <<"forbid_file", FALSE>>,
                          asset |-> <<"forbid_file", FALSE>>],
                         scope_state_path, okFs, okAsset))
    /\ scope' = [scope EXCEPT !.forbidden_paths =
                   Insert(@, ScopePath(scope_state_path, "File"))]
    /\ pc' = "load"
    /\ UNCHANGED <<app_dir, protocol_asset, loaded, todoA, todoF,
                   listening, file, mutex_scope, tpc, ev, nCalls, nRestarts,
                   persisted>>

\* Guard with `?` on the calls: an error ends setup before the load
GuardAbortOnError ==
    /\ pc = "guard"
    /\ \E okFs, okAsset \in BOOLEAN :
         /\ HostAfter(Issue("guard", "File",
                            [fs |-> <<"forbid_file", FALSE>>,
                             asset |-> <<"forbid_file", FALSE>>],
                            scope_state_path, okFs, okAsset))
         /\ pc' = IF okFs /\ (okAsset \/ ~protocol_asset) THEN "load" ELSE "ready"
    /\ UNCHANGED <<app_dir, protocol_asset, scope, loaded, todoA, todoF,
                   listening, file, mutex_scope, tpc, ev, nCalls, nRestarts, persisted>>

\* forbid_file(&scope_state_path) on the managers, results dropped
Guard ==
    /\ pc = "guard"
    /\ \E okFs, okAsset \in BOOLEAN :
         HostAfter(Issue("guard", "File",
                         [fs |-> <<"forbid_file", FALSE>>,
                          asset |-> <<"forbid_file", FALSE>>],
                         scope_state_path, okFs, okAsset))
    /\ pc' = "load"
    /\ UNCHANGED <<app_dir, protocol_asset, scope, loaded, todoA, todoF,
                   listening, file, mutex_scope, tpc, ev, nCalls, nRestarts, persisted>>

\* Load with the listener registered before the file is read
LoadAfterListen ==
    /\ pc = "load"
    /\ IF file.exists
         THEN \E readOk \in BOOLEAN :
                LET d == Deserialize(file.bytes)
                    s == LoadScope(readOk, file.bytes)
                IN  /\ readOk \/ nFaults < MaxFaults
                    /\ nFaults' = IF readOk THEN nFaults ELSE nFaults + 1
                    /\ scope' = s
                    /\ loaded' = [status |-> IF readOk /\ d.ok THEN "ok" ELSE "failed",
                                  scope |-> s]
                    /\ todoA' = s.allowed_paths
                    /\ todoF' = s.forbidden_paths
         ELSE /\ scope' = DefaultScope
              /\ UNCHANGED nFaults
              /\ loaded' = [status |-> "absent", scope |-> DefaultScope]
              /\ todoA' = {}
              /\ todoF' = {}
    /\ listening' = TRUE
    /\ pc' = "replay"
    /\ UNCHANGED <<app_dir, protocol_asset, calls, fs_scope, asset_protocol_scope,
                   file, mutex_scope, tpc, ev, nCalls, nRestarts, persisted>>

\* if the file exists: read it, deserialize it, default on any error
Load ==
    /\ pc = "load"
    /\ IF file.exists
         THEN \E readOk \in BOOLEAN :
                LET d == Deserialize(file.bytes)
                    s == LoadScope(readOk, file.bytes)
                IN  /\ readOk \/ nFaults < MaxFaults
                    /\ nFaults' = IF readOk THEN nFaults ELSE nFaults + 1
                    /\ scope' = s
                    /\ loaded' = [status |-> IF readOk /\ d.ok THEN "ok" ELSE "failed",
                                  scope |-> s]
                    /\ todoA' = s.allowed_paths
                    /\ todoF' = s.forbidden_paths
         ELSE /\ scope' = DefaultScope
              /\ UNCHANGED nFaults
              /\ loaded' = [status |-> "absent", scope |-> DefaultScope]
              /\ todoA' = {}
              /\ todoF' = {}
    /\ pc' = "replay"
    /\ UNCHANGED <<app_dir, protocol_asset, calls, fs_scope, asset_protocol_scope,
                   listening, file, mutex_scope, tpc, ev, nCalls, nRestarts, persisted>>

\* ReplayAllowed with `?` on the primary call: an error ends the replay
ReplayAllowedAbort ==
    /\ pc = "replay"
    /\ \E e \in todoA, okFs, okAsset \in BOOLEAN :
         /\ HostAfter(Issue("allowed", e.target_type,
                            AllowedReplayOp(e.target_type), e.path, okFs, okAsset))
         /\ todoA' = IF okFs THEN todoA \ {e} ELSE {}
         /\ todoF' = IF okFs THEN todoF ELSE {}
    /\ UNCHANGED <<pc, app_dir, protocol_asset, scope, loaded, listening,
                   file, mutex_scope, tpc, ev, nCalls, nRestarts, persisted>>

\* one iteration of `for allowed in scope.allowed_paths.iter()`
ReplayAllowed ==
    /\ pc = "replay"
    /\ \E e \in todoA, okFs, okAsset \in BOOLEAN :
         /\ HostAfter(Issue("allowed", e.target_type,
                            AllowedReplayOp(e.target_type), e.path, okFs, okAsset))
         /\ todoA' = todoA \ {e}
    /\ UNCHANGED <<pc, app_dir, protocol_asset, scope, loaded, todoF, listening,
                   file, mutex_scope, tpc, ev, nCalls, nRestarts, persisted>>

\* one iteration of `for allowed in scope.forbidden_paths.iter()`
ReplayForbidden ==
    /\ pc = "replay"
    /\ todoA = {}
    /\ \E e \in todoF, okFs, okAsset \in BOOLEAN :
         /\ HostAfter(Issue("forbidden", e.target_type,
                            ForbiddenReplayOp(e.target_type), e.path, okFs, okAsset))
         /\ todoF' = todoF \ {e}
    /\ UNCHANGED <<pc, app_dir, protocol_asset, scope, loaded, todoA, listening,
                   file, mutex_scope, tpc, ev, nCalls, nRestarts, persisted>>

\* Mutex::new(scope); fs_scope.listen(..); Ok(())
Listen ==
    /\ pc = "replay"
    /\ todoA = {}
    /\ todoF = {}
    /\ listening' = TRUE
    /\ pc' = "ready"
    /\ UNCHANGED <<app_dir, protocol_asset, scope, loaded, todoA, todoF, calls,
                   fs_scope, asset_protocol_scope, file, mutex_scope, tpc, ev,
                   nCalls, nRestarts, nFaults, persisted>>

\* ------------------------------------------------------------------------
\* Session: host calls and the listener
\* ------------------------------------------------------------------------

\* host threads are interchangeable: of the idle ones, the first makes the
\* next call
FirstIdle(t) == \A u \in Threads : tpc[u] = "idle" => t <= u

\* a host thread calls the primary scope manager; the manager records the
\* patterns and then runs its listeners on the calling thread
HostCall(t) ==
    /\ pc = "ready"
    /\ tpc[t] = "idle"
    /\ FirstIdle(t)
    /\ nCalls < MaxCalls
    /\ \E p \in Paths : \E o \in OpsOn(p) :
         /\ fs_scope' = Apply(fs_scope, o[1], p, o[2])
         /\ IF listening
              THEN /\ tpc' = [tpc EXCEPT ![t] = "lock"]
                   /\ ev' = [ev EXCEPT ![t] = [NoEvent EXCEPT !.kind = EventOf(o[1], p).kind,
                                                              !.path = EventOf(o[1], p).path]]
              ELSE UNCHANGED <<tpc, ev>>
    /\ nCalls' = nCalls + 1
    /\ UNCHANGED <<pc, app_dir, protocol_asset, scope, loaded, todoA, todoF, calls,
                   asset_protocol_scope, listening, file, mutex_scope, nRestarts, nFaults, persisted>>

\* Lock that does not wait for the holder to release the Mutex
LockNoWait(t) ==
    /\ tpc[t] = "lock"
    /\ IF mutex_scope.poisoned
         THEN /\ tpc' = [tpc EXCEPT ![t] = "idle"]
              /\ ev' = [ev EXCEPT ![t] = Dropped]
              /\ UNCHANGED mutex_scope
         ELSE /\ tpc' = [tpc EXCEPT ![t] = "classify"]
              /\ mutex_scope' = [mutex_scope EXCEPT !.holder = t]
              /\ UNCHANGED ev
    /\ UNCHANGED <<pc, app_dir, protocol_asset, scope, loaded, todoA, todoF, calls,
                   fs_scope, asset_protocol_scope, listening, file, nCalls, nRestarts, nFaults, persisted>>

\* Lock that takes the guard out of a PoisonError and carries on
LockIgnorePoison(t) ==
    /\ tpc[t] = "lock"
    /\ mutex_scope.holder = 0
    /\ tpc' = [tpc EXCEPT ![t] = "classify"]
    /\ mutex_scope' = [mutex_scope EXCEPT !.holder = t]
    /\ UNCHANGED ev
    /\ UNCHANGED <<pc, app_dir, protocol_asset, scope, loaded, todoA, todoF, calls,
                   fs_scope, asset_protocol_scope, listening, file, nCalls, nRestarts, nFaults, persisted>>

\* mutex_scope.lock(): blocks while another thread holds the Mutex; Err when
\* the Mutex is poisoned, and then the handler only prints
Lock(t) ==
    /\ tpc[t] = "lock"
    /\ mutex_scope.holder = 0
    /\ IF mutex_scope.poisoned
         THEN /\ tpc' = [tpc EXCEPT ![t] = "idle"]
              /\ ev' = [ev EXCEPT ![t] = Dropped]
              /\ UNCHANGED mutex_scope
         ELSE /\ tpc' = [tpc EXCEPT ![t] = "classify"]
              /\ mutex_scope' = [mutex_scope EXCEPT !.holder = t]
              /\ UNCHANGED ev
    /\ UNCHANGED <<pc, app_dir, protocol_asset, scope, loaded, todoA, todoF, calls,
                   fs_scope, asset_protocol_scope, listening, file, nCalls, nRestarts, nFaults, persisted>>

\* the directory grants the manager holds for a path: "Directory" when it
\* holds the pattern path/*, "RecursiveDirectory" when it holds path/**
GrantsOf(path, patterns) ==
    {TypeOfPattern(p) :
       p \in patterns \cap UNION {PatternsOf("allow_directory", path, r) \ {Escape(path)} :
                                    r \in BOOLEAN}}

\* the patterns the handler hands to scope_path_from_patterns
PatternsFor(kind) ==
    IF kind = "PathAllowed" THEN fs_scope.allowed_patterns
                            ELSE fs_scope.forbidden_patterns

\* Record taking the path out of the other set
RecordExclusive(sc, kind, scope_path) ==
    IF kind = "PathAllowed"
      THEN [allowed_paths |-> Insert(sc.allowed_paths, scope_path),
            forbidden_paths |-> {e \in sc.forbidden_paths : e.path # scope_path.path}]
      ELSE [allowed_paths |-> {e \in sc.allowed_paths : e.path # scope_path.path},
            forbidden_paths |-> Insert(sc.forbidden_paths, scope_path)]

\* the Scope after the match arm of the event has inserted scope_path
Record(sc, kind, scope_path) ==
    IF kind = "PathAllowed"
      THEN [sc EXCEPT !.allowed_paths = Insert(@, scope_path)]
      ELSE [sc EXCEPT !.forbidden_paths = Insert(@, scope_path)]

\* the set the event's arm inserts into
TargetSet(sc, kind) ==
    IF kind = "PathAllowed" THEN sc.allowed_paths ELSE sc.forbidden_paths

\* the match on the event: classify the path, insert into the Scope
Classify(t) ==
    /\ tpc[t] = "classify"
    /\ \E sp \in scope_path_from_patterns(ev[t].path, PatternsFor(ev[t].kind)) :
         /\ scope' = Record(scope, ev[t].kind, sp)
         /\ ev' = [ev EXCEPT ![t] =
                     [@ EXCEPT !.matched = Matching(ev[t].path, PatternsFor(ev[t].kind)) # {},
                               !.grants = GrantsOf(ev[t].path, PatternsFor(ev[t].kind)),
                               !.entry = sp,
                               !.present = sp \in TargetSet(scope, ev[t].kind)]]
    /\ tpc' = [tpc EXCEPT ![t] = "create"]
    /\ UNCHANGED <<pc, app_dir, protocol_asset, loaded, todoA, todoF, calls,
                   fs_scope, asset_protocol_scope, listening, file, mutex_scope,
                   nCalls, nRestarts, nFaults, persisted>>

\* CreateFile with unwrap() on the result: a failure panics under the guard
CreateFileUnwrap(t) ==
    /\ tpc[t] = "create"
    /\ \/ /\ file' = OnDisk(<<>>)
          /\ persisted' = [persisted EXCEPT !.status = "torn", !.scope = scope,
                                            !.recovered = {}]
          /\ tpc' = [tpc EXCEPT ![t] = "write"]
          /\ UNCHANGED <<nFaults, mutex_scope>>
       \/ /\ nFaults < MaxFaults
          /\ nFaults' = nFaults + 1
          /\ persisted' = [persisted EXCEPT !.unsaved = @ \cup {Piece(ev[t])}]
          /\ UNCHANGED file
          /\ mutex_scope' = [holder |-> 0, poisoned |-> TRUE]
          /\ tpc' = [tpc EXCEPT ![t] = "panicked"]
    /\ UNCHANGED <<pc, app_dir, protocol_asset, scope, loaded, todoA, todoF, calls,
                   fs_scope, asset_protocol_scope, listening,
                   ev, nCalls, nRestarts>>

\* create_dir_all(&app_dir).and_then(|_| File::create(scope_state_path)):
\* the file is created or truncated, or either call fails and nothing is
\* written
CreateFile(t) ==
    /\ tpc[t] = "create"
    /\ \/ /\ file' = OnDisk(<<>>)
          /\ persisted' = [persisted EXCEPT !.status = "torn", !.scope = scope,
                                            !.recovered = {}]
          /\ tpc' = [tpc EXCEPT ![t] = "write"]
          /\ UNCHANGED nFaults
       \/ /\ nFaults < MaxFaults
          /\ nFaults' = nFaults + 1
          /\ persisted' = [persisted EXCEPT !.unsaved = @ \cup {Piece(ev[t])}]
          /\ UNCHANGED file
          /\ tpc' = [tpc EXCEPT ![t] = "unlock"]
    /\ UNCHANGED <<pc, app_dir, protocol_asset, scope, loaded, todoA, todoF, calls,
                   fs_scope, asset_protocol_scope, listening, mutex_scope,
                   ev, nCalls, nRestarts>>

\* the lengths a failed write_all is taken to leave on disk: nothing, half
\* of the bytes, all but the last
Cuts(bytes) == {0, Len(bytes) \div 2, Len(bytes) - 1}

\* f.write_all(&bincode::serialize(&*scope)): all the bytes, or on an error
\* some prefix of them
WriteAll(t) ==
    /\ tpc[t] = "write"
    /\ \E bytes \in Encodings(scope) :
         \/ /\ file' = OnDisk(bytes)
            /\ persisted' = [status |-> "ok", scope |-> scope,
                             unsaved |-> {}, recovered |-> persisted.unsaved,
                             last |-> [ok |-> TRUE, scope |-> scope]]
            /\ UNCHANGED nFaults
         \/ /\ nFaults < MaxFaults
            /\ nFaults' = nFaults + 1
            /\ persisted' = [persisted EXCEPT !.status = "torn", !.scope = scope,
                                              !.unsaved = @ \cup {Piece(ev[t])}]
            /\ \E k \in Cuts(bytes) : file' = OnDisk(SubSeq(bytes, 1, k))
    /\ tpc' = [tpc EXCEPT ![t] = "unlock"]
    /\ UNCHANGED <<pc, app_dir, protocol_asset, scope, loaded, todoA, todoF, calls,
                   fs_scope, asset_protocol_scope, listening, mutex_scope,
                   ev, nCalls, nRestarts>>

\* the handler returns: the MutexGuard is dropped
Unlock(t) ==
    /\ tpc[t] = "unlock"
    /\ mutex_scope' = [mutex_scope EXCEPT !.holder = 0]
    /\ tpc' = [tpc EXCEPT ![t] = "idle"]
    /\ ev' = [ev EXCEPT ![t] = NoEvent]
    /\ UNCHANGED <<pc, app_dir, protocol_asset, scope, loaded, todoA, todoF, calls,
                   fs_scope, asset_protocol_scope, listening, file,
                   nCalls, nRestarts, nFaults, persisted>>

\* the host's pattern accessor panics while the handler holds the guard:
\* the unwinding drops the guard and poisons the Mutex
Panic(t) ==
    /\ tpc[t] = "classify"
    /\ nFaults < MaxFaults
    /\ nFaults' = nFaults + 1
    /\ mutex_scope' = [holder |-> 0, poisoned |-> TRUE]
    /\ tpc' = [tpc EXCEPT ![t] = "panicked"]
    /\ ev' = [ev EXCEPT ![t] = NoEvent]
    /\ UNCHANGED <<pc, app_dir, protocol_asset, scope, loaded, todoA, todoF, calls,
                   fs_scope, asset_protocol_scope, listening, file,
                   nCalls, nRestarts, persisted>>

\* the process ends (exit or crash, at any point) and is started again: only
\* the disk survives
Restart ==
    /\ nRestarts < MaxRestarts
    /\ nRestarts' = nRestarts + 1
    /\ pc' = "start"
    /\ scope' = DefaultScope
    /\ loaded' = NotLoaded
    /\ todoA' = {}
    /\ todoF' = {}
    /\ calls' = <<>>
    /\ fs_scope' = EmptyManager
    /\ asset_protocol_scope' = EmptyManager
    /\ listening' = FALSE
    /\ mutex_scope' = [holder |-> 0, poisoned |-> FALSE]
    /\ tpc' = [t \in Threads |-> "idle"]
    /\ ev' = [t \in Threads |-> NoEvent]
    /\ persisted' = [persisted EXCEPT !.unsaved = {}, !.recovered = {}]
    /\ UNCHANGED <<app_dir, protocol_asset, file, nCalls, nFaults>>

Next ==
    \/ Resolve
    \/ Guard
    \/ Load
    \/ ReplayAllowed
    \/ ReplayForbidden
    \/ Listen
    \/ \E t \in Threads : HostCall(t)
    \/ \E t \in Threads : Lock(t)
    \/ \E t \in Threads : Classify(t)
    \/ \E t \in Threads : CreateFile(t)
    \/ \E t \in Threads : WriteAll(t)
    \/ \E t \in Threads : Unlock(t)
    \/ \E t \in Threads : Panic(t)
    \/ Restart

Spec == Init /\ [][Next]_vars

\* ------------------------------------------------------------------------
\* Vocabulary of the properties
\* ------------------------------------------------------------------------

PathsOf(set) == {e.path : e \in set}

\* the state file's own path is recorded in the Scope
StatePathIn(sc) ==
    scope_state_path \in PathsOf(sc.allowed_paths) \cup PathsOf(sc.forbidden_paths)

\* setup ran to its end with an app-data directory
SetupDone == pc = "ready" /\ listening

\* the file has been read and the replay has started or is over
Replaying == pc \in {"replay", "ready"} /\ loaded.status # "none"

\* positions of the call log holding a call made by `src` on manager `mgr`
CallsBy(src, mgr) ==
    {i \in 1..Len(calls) : calls[i].src = src /\ calls[i].mgr = mgr}

\* the entries for which `src` has made its call on manager `mgr`
Replayed(src, mgr) ==
    {ScopePath(calls[i].path, calls[i].target_type) : i \in CallsBy(src, mgr)}

\* the handler of thread t is past the insertion and has not returned
Inserted(t) == tpc[t] \in {"create", "write", "unlock"}

\* the operation a target type stands for, as an allow and as a forbid
AllowOpFor(target_type) ==
    CASE target_type = "File" -> <<"allow_file", FALSE>>
      [] target_type = "Directory" -> <<"allow_directory", FALSE>>
      [] target_type = "RecursiveDirectory" -> <<"allow_directory", TRUE>>

ForbidOpFor(target_type) ==
    CASE target_type = "File" -> <<"forbid_file", FALSE>>
      [] target_type = "Directory" -> <<"forbid_directory", FALSE>>
      [] target_type = "RecursiveDirectory" -> <<"forbid_directory", TRUE>>

\* ------------------------------------------------------------------------
\* C1
\* ------------------------------------------------------------------------

\* C1: during rehydration every entry of the loaded forbidden set gets the
\* forbid operation of its target type on the primary scope manager, and no
\* forbidden entry ever causes an allow operation.
C1_ForbiddenReplayedAsForbid ==
    /\ \A i \in 1..Len(calls) :
         calls[i].src = "forbidden" =>
           /\ ~IsAllowOp(calls[i].op)
           /\ calls[i].mgr = "fs" =>
                <<calls[i].op, calls[i].recursive>> = ForbidOpFor(calls[i].target_type)
    /\ Replaying => Replayed("forbidden", "fs") \cup todoF = loaded.scope.forbidden_paths

\* ------------------------------------------------------------------------
\* C2
\* ------------------------------------------------------------------------

\* C2 (as claimed): once setup is over the Scope never holds the state
\* file's own path, in either set.
C2_NeverOwnPath == SetupDone => ~StatePathIn(scope)

\* C2 (amended): the state file's path enters the Scope only when the state
\* file read at setup holds it or when an event for that path is handled;
\* the guard's own forbid_file call never records it.
C2_OwnPathOnlyFromFileOrEvent ==
    [][(StatePathIn(scope') /\ ~StatePathIn(scope)) =>
         \/ pc = "load" /\ file.exists /\ StatePathIn(Deserialize(file.bytes).scope)
         \/ \E t \in Threads : tpc[t] = "classify" /\ ev[t].path = scope_state_path]_vars

\* setup is over, the guard's forbid_file succeeded, events have been
\* recorded, and the state file's path is not in the Scope
C2_Witness ==
    /\ SetupDone
    /\ \E i \in CallsBy("guard", "fs") :
         calls[i].ok /\ calls[i].op = "forbid_file" /\ calls[i].path = scope_state_path
    /\ Escape(scope_state_path) \in fs_scope.forbidden_patterns
    /\ scope.allowed_paths # {}
    /\ ~StatePathIn(scope)

\* ------------------------------------------------------------------------
\* C3
\* ------------------------------------------------------------------------

\* the handler of thread t takes a step of its locked section
HandlerStep(t) ==
    /\ tpc[t] \in {"classify", "create", "write"}
    /\ tpc'[t] \in {"create", "write", "unlock"}
    /\ tpc'[t] # tpc[t]

\* the host has no pattern matching the path of the event t is handling
Unmatched(t) ==
    IF tpc[t] = "classify"
      THEN Matching(ev[t].path, PatternsFor(ev[t].kind)) = {}
      ELSE ~ev[t].matched

\* C3 (as claimed): an event for a path no host pattern matches is a no-op:
\* its handler changes neither the Scope nor the state file.
C3_UnmatchedEventIsNoOp ==
    [][\A t \in Threads :
         (HandlerStep(t) /\ Unmatched(t)) => (scope' = scope /\ file' = file)]_vars

\* C3 (amended): an event for a path no host pattern matches is recorded:
\* its handler inserts the path with target type File into the set of the
\* event's kind and goes on to rewrite the state file.
C3_UnmatchedEventRecordedAsFile ==
    \A t \in Threads :
      (Inserted(t) /\ ~ev[t].matched) =>
        /\ ev[t].entry = ScopePath(ToStringLossy(ev[t].path), "File")
        /\ ev[t].entry \in TargetSet(scope, ev[t].kind)

\* a handler has truncated the file for an event no pattern matched, having
\* added a new File entry
C3_Witness ==
    \E t \in Threads :
      /\ tpc[t] = "write"
      /\ ~ev[t].matched
      /\ ~ev[t].present
      /\ ev[t].entry.target_type = "File"
      /\ file = OnDisk(<<>>)

\* ------------------------------------------------------------------------
\* C4
\* ------------------------------------------------------------------------

\* the entries of a set recorded for a path
EntriesFor(set, path) == {e \in set : e.path = path}

\* C4 (as claimed): after an event is recorded, the set of its kind holds
\* exactly one entry for the event's path, the one with the type classified
\* for this event.
C4_OneEntryPerPath ==
    \A t \in Threads :
      Inserted(t) =>
        EntriesFor(TargetSet(scope, ev[t].kind), ev[t].entry.path) = {ev[t].entry}

\* C4 (amended): recording an event adds the entry (path, classified type)
\* to the set of its kind and removes nothing: entries recorded earlier for
\* the same path with another target type stay, so the set holds at most one
\* entry per pair of path and target type.
C4_EntryAddedOthersKept ==
    [][\A t \in Threads :
         (tpc[t] = "classify" /\ tpc'[t] = "create") =>
           /\ ev'[t].entry.path = ToStringLossy(ev[t].path)
           /\ ev'[t].entry.target_type \in
                TargetTypesFromPatterns(ev[t].path, PatternsFor(ev[t].kind))
           /\ TargetSet(scope', ev[t].kind) =
                TargetSet(scope, ev[t].kind) \cup {ev'[t].entry}
           /\ Cardinality(TargetSet(scope', ev[t].kind)) =
                Cardinality(TargetSet(scope, ev[t].kind))
                  + (IF ev'[t].entry \in TargetSet(scope, ev[t].kind) THEN 0 ELSE 1)]_vars

\* an allowed event has just been recorded for a path that already had an
\* entry of another target type, and both entries are in the set
C4_Witness ==
    \E t \in Threads :
      /\ tpc[t] = "create"
      /\ ev[t].kind = "PathAllowed"
      /\ ~ev[t].present
      /\ Cardinality(EntriesFor(scope.allowed_paths, ev[t].entry.path)) >= 2

\* ------------------------------------------------------------------------
\* C5
\* ------------------------------------------------------------------------

\* C5: when a PathForbidden event has been handled, its path is forbidden
\* in the primary scope manager and, when there is one, in the asset
\* protocol scope manager.
C5_ForbidMirrored ==
    \A t \in Threads :
      (tpc[t] = "unlock" /\ ev[t].kind = "PathForbidden") =>
        /\ Escape(ev[t].path) \in fs_scope.forbidden_patterns
        /\ protocol_asset =>
             Escape(ev[t].path) \in asset_protocol_scope.forbidden_patterns

\* ------------------------------------------------------------------------
\* C6
\* ------------------------------------------------------------------------

\* C6 (as claimed): once a handler has opened the state file for writing,
\* the file decodes in every state to a full Scope, never to a partial or
\* empty one, and after a completed write to the Scope of that write.
C6_FileAlwaysComplete ==
    persisted.status # "none" =>
      /\ file.exists
      /\ Deserialize(file.bytes).ok
      /\ persisted.status = "ok" => Deserialize(file.bytes).scope = persisted.scope

\* C6 (amended): while the last write of the state file is one that ran to
\* completion, the file decodes to the full Scope as it was at that write;
\* from the truncation by File::create until a write completes, and after a
\* crash or a failed write in between, the file is empty or partial and does
\* not decode.
C6_FileCompleteAfterFullWrite ==
    /\ persisted.status = "ok" =>
         /\ file.exists
         /\ Deserialize(file.bytes).ok
         /\ Deserialize(file.bytes).scope = persisted.scope
    /\ persisted.status = "torn" =>
         /\ file.exists
         /\ ~Deserialize(file.bytes).ok

\* a handler has completed the write of a Scope with entries in both sets
\* and still holds the lock
C6_Witness ==
    \E t \in Threads :
      /\ tpc[t] = "unlock"
      /\ persisted.status = "ok"
      /\ persisted.scope = scope
      /\ scope.allowed_paths # {}
      /\ scope.forbidden_paths # {}

\* ------------------------------------------------------------------------
\* C7
\* ------------------------------------------------------------------------

\* C7: the replay never ends early: whatever calls have failed, every entry
\* of the loaded Scope has had its call on the primary scope manager or is
\* still to be visited, and setup ends with the listener registered.
C7_ReplayNeverAborts ==
    /\ Replaying =>
         /\ Replayed("allowed", "fs") \cup todoA = loaded.scope.allowed_paths
         /\ Replayed("forbidden", "fs") \cup todoF = loaded.scope.forbidden_paths
    /\ (pc = "ready" /\ app_dir) =>
         /\ listening
         /\ todoA = {}
         /\ todoF = {}

\* setup is over for a file with two allowed entries and one forbidden
\* entry, and the call for one allowed entry failed
C7_Witness ==
    /\ SetupDone
    /\ Cardinality(loaded.scope.allowed_paths) >= 2
    /\ Cardinality(loaded.scope.forbidden_paths) >= 1
    /\ \E i \in CallsBy("allowed", "fs") : ~calls[i].ok
    /\ Cardinality(CallsBy("allowed", "fs")) = Cardinality(loaded.scope.allowed_paths)
    /\ Cardinality(CallsBy("forbidden", "fs")) = Cardinality(loaded.scope.forbidden_paths)

\* ------------------------------------------------------------------------
\* C8
\* ------------------------------------------------------------------------

\* C8: every call of the allowed replay is the allow operation of the
\* entry's target type; every entry visited has had that call on the primary
\* scope manager and, with the asset protocol, on the secondary one.
C8_AllowedReplayDispatch ==
    /\ \A i \in 1..Len(calls) :
         calls[i].src = "allowed" =>
           <<calls[i].op, calls[i].recursive>> = AllowOpFor(calls[i].target_type)
    /\ Replaying =>
         /\ Replayed("allowed", "fs") = loaded.scope.allowed_paths \ todoA
         /\ Replayed("allowed", "asset") =
              (IF protocol_asset THEN loaded.scope.allowed_paths \ todoA ELSE {})

\* setup is over and replayed a recursive directory, a directory or a file
\* on both managers
C8_Witness ==
    /\ SetupDone
    /\ protocol_asset
    /\ \E i \in CallsBy("allowed", "asset"), j \in CallsBy("allowed", "fs") :
         /\ calls[i].target_type = "RecursiveDirectory"
         /\ calls[i].op = "allow_directory"
         /\ calls[i].recursive
         /\ calls[j].target_type = "RecursiveDirectory"
         /\ calls[j].path = calls[i].path

\* ------------------------------------------------------------------------
\* C9
\* ------------------------------------------------------------------------

\* C9: when the state file exists but cannot be read or decoded, the Scope
\* is the empty one, the replay makes no call, and setup ends with the
\* listener registered on that empty Scope.
C9_GarbageFallsBackToEmpty ==
    loaded.status = "failed" =>
      /\ loaded.scope = DefaultScope
      /\ todoA = {}
      /\ todoF = {}
      /\ \A i \in 1..Len(calls) : calls[i].src = "guard"
      /\ pc = "replay" => scope = DefaultScope
      /\ pc = "ready" => listening

\* setup is over for a state file that is there, is not empty and did not
\* decode
C9_Witness ==
    /\ SetupDone
    /\ loaded.status = "failed"
    /\ file.exists
    /\ Len(file.bytes) >= 2
    /\ ~Deserialize(file.bytes).ok
    /\ scope = DefaultScope

\* ------------------------------------------------------------------------
\* C10
\* ------------------------------------------------------------------------

\* C10: recording a PathAllowed event whose entry (same path, same
\* classification) is already in the allowed set leaves the Scope as it
\* was, with that one entry for the pair.
C10_SameEventTwice ==
    [][\A t \in Threads :
         (/\ tpc[t] = "classify"
          /\ tpc'[t] = "create"
          /\ ev[t].kind = "PathAllowed"
          /\ ev'[t].entry \in scope.allowed_paths) =>
           /\ scope' = scope
           /\ ev'[t].entry \in scope'.allowed_paths]_vars

\* a PathAllowed event has been recorded whose entry was already there
C10_Witness ==
    \E t \in Threads :
      /\ tpc[t] = "create"
      /\ ev[t].kind = "PathAllowed"
      /\ ev[t].present
      /\ ev[t].entry \in scope.allowed_paths
      /\ nCalls = 2

\* ------------------------------------------------------------------------
\* C11
\* ------------------------------------------------------------------------

\* the target type the host's grants for the event's path stood for when
\* thread t classified it: recursive directory, else directory, else file
GrantType(t) ==
    IF "RecursiveDirectory" \in ev[t].grants THEN "RecursiveDirectory"
    ELSE IF "Directory" \in ev[t].grants THEN "Directory"
    ELSE "File"

\* the handler of thread t has recorded its event into a Scope that was empty
FirstRecorded(t) ==
    /\ Inserted(t)
    /\ scope.allowed_paths \cup scope.forbidden_paths = {ev[t].entry}

\* C11: a PathAllowed event handled on an empty Scope leaves exactly the
\* entry (path, type of the host's grant) in allowed and nothing in
\* forbidden: RecursiveDirectory for a path granted as a recursive directory,
\* Directory for a non-recursive directory grant, File for a file grant; and
\* once the handler's write has completed the state file decodes to that
\* Scope.
C11_FirstGrantRecorded ==
    \A t \in Threads :
      (FirstRecorded(t) /\ ev[t].kind = "PathAllowed") =>
        /\ scope = [allowed_paths |-> {ScopePath(ev[t].path, GrantType(t))},
                    forbidden_paths |-> {}]
        /\ (tpc[t] = "unlock" /\ persisted.status = "ok" /\ persisted.scope = scope) =>
             /\ Deserialize(file.bytes).ok
             /\ Deserialize(file.bytes).scope = scope

\* ------------------------------------------------------------------------
\* C12
\* ------------------------------------------------------------------------

\* every encoding of the Scope, whatever the order in which the two sets
\* are iterated, decodes to the same Scope
RoundTrip ==
    \A bytes \in Encodings(scope) :
      Deserialize(bytes) = [ok |-> TRUE, scope |-> scope]

\* the step of setup that loads the Scope
LoadStep == pc = "load" /\ pc' = "replay"

\* C12 (as claimed): decode(encode(S)) = S for every Scope S, and the Scope
\* a startup loads is the Scope of the last write of the state file that ran
\* to completion.
C12_LoadsLastCompletedWrite ==
    /\ []RoundTrip
    /\ [][(LoadStep /\ persisted.last.ok) =>
            loaded'.scope = persisted.last.scope]_vars

\* C12 (amended): decode(encode(S)) = S for every Scope S; a startup loads
\* the Scope of the last write of the state file when that write ran to
\* completion, no later attempt has truncated the file since, and the read
\* succeeds; after a torn write or a failed read it loads the empty Scope.
C12_RoundTripAndReload ==
    /\ []RoundTrip
    /\ [][LoadStep =>
            /\ (persisted.status = "ok" /\ nFaults' = nFaults) =>
                 /\ loaded' = [status |-> "ok", scope |-> persisted.scope]
                 /\ scope' = persisted.scope
            /\ (persisted.status = "torn" \/ nFaults' # nFaults) =>
                 /\ loaded' = [status |-> "failed", scope |-> DefaultScope]
                 /\ scope' = DefaultScope]_vars

\* a restarted process has loaded the Scope of two or more entries that the
\* previous session wrote last
C12_Witness ==
    /\ nRestarts = 1
    /\ pc = "replay"
    /\ persisted.status = "ok"
    /\ loaded = [status |-> "ok", scope |-> persisted.scope]
    /\ Cardinality(scope.allowed_paths \cup scope.forbidden_paths) >= 2
    /\ \E e \in scope.allowed_paths : e.target_type # "File"

\* ------------------------------------------------------------------------
\* C13
\* ------------------------------------------------------------------------

\* the managers the plugin calls: the primary one, and the secondary one
\* with the feature
Managers == IF protocol_asset THEN <<"fs", "asset">> ELSE <<"fs">>

\* call i of the log is the forbid_file of the state file's path on mgr
IsGuardCall(i, mgr) ==
    /\ i <= Len(calls)
    /\ calls[i].src = "guard"
    /\ calls[i].mgr = mgr
    /\ calls[i].op = "forbid_file"
    /\ calls[i].path = scope_state_path

\* no call at all before the guard; once it has run, the log starts with
\* the forbid_file on each manager and every replay call comes after them
GuardBeforeReplay ==
    /\ pc \in {"start", "guard"} => calls = <<>>
    /\ (app_dir /\ pc \notin {"start", "guard"}) =>
         /\ \A k \in 1..Len(Managers) : IsGuardCall(k, Managers[k])
         /\ \A i \in 1..Len(calls) :
              calls[i].src \in {"allowed", "forbidden"} => i > Len(Managers)

\* C13: when the app-data directory resolves, forbid_file on the state
\* file's own path is called on fs_scope (and on asset_protocol_scope with
\* the feature) before any allow or forbid call of the replay, and whether
\* or not these calls fail setup goes on to load the file and to register
\* the listener.
C13_GuardFirstAndNotFatal ==
    /\ []GuardBeforeReplay
    /\ [][(pc = "guard" /\ pc' # "start") => pc' = "load"]_vars
    /\ [](pc = "ready" /\ app_dir => listening)

\* setup has run to its end although the forbid_file on the state file's
\* path failed, and replay calls follow it in the log
C13_Witness ==
    /\ SetupDone
    /\ IsGuardCall(1, "fs")
    /\ ~calls[1].ok
    /\ \E i \in 2..Len(calls) : calls[i].src = "allowed"
    /\ \E i \in 2..Len(calls) : calls[i].src = "forbidden"

\* ------------------------------------------------------------------------
\* C14
\* ------------------------------------------------------------------------

\* the handler of thread t is between its lock() and its return
InCriticalSection(t) == tpc[t] \in {"classify", "create", "write", "unlock"}

\* at most one handler is in its critical section, and it holds the Mutex
MutualExclusion ==
    \A t, u \in Threads :
      InCriticalSection(t) =>
        /\ mutex_scope.holder = t
        /\ InCriticalSection(u) => u = t

\* thread t completes a write of the state file in this step
WriteCompletes(t) ==
    /\ tpc[t] = "write"
    /\ tpc'[t] = "unlock"
    /\ persisted'.status = "ok"

\* C14: with events delivered from several threads at once, at most one
\* handler is in its critical section; once the listener is registered the
\* Scope and the state file change only in a step of the handler that holds
\* the Mutex before and after it, so the truncation and the write of one
\* handler are never separated by another handler's; and a completed write
\* leaves a file that decodes to the whole Scope, with the entry of its own
\* event and of every event recorded before it whose write had failed.
C14_HandlersSerialized ==
    /\ []MutualExclusion
    /\ [][(listening /\ listening' /\ (scope' # scope \/ file' # file)) =>
            \E t \in Threads :
              /\ HandlerStep(t)
              /\ mutex_scope.holder = t
              /\ mutex_scope'.holder = t
              /\ scope.allowed_paths \subseteq scope'.allowed_paths
              /\ scope.forbidden_paths \subseteq scope'.forbidden_paths]_vars
    /\ [][\A t \in Threads :
            WriteCompletes(t) =>
              /\ Deserialize(file'.bytes) = [ok |-> TRUE, scope |-> scope]
              /\ ev[t].entry \in TargetSet(scope, ev[t].kind)
              /\ \A e \in persisted.unsaved :
                   e.entry \in TargetSet(scope, e.kind)]_vars

\* one handler has completed its write and still holds the Mutex while the
\* handler of another thread waits in lock() with its event
C14_Witness ==
    \E t, u \in Threads :
      /\ tpc[t] = "unlock"
      /\ tpc[u] = "lock"
      /\ mutex_scope.holder = t
      /\ persisted.status = "ok"
      /\ Deserialize(file.bytes).scope = scope
      /\ ev[t].entry \in TargetSet(scope, ev[t].kind)

\* ------------------------------------------------------------------------
\* C15
\* ------------------------------------------------------------------------

\* the entries of the history `pieces` that the Scope sc holds
Held(pieces, sc) == {e \in pieces : e.entry \in TargetSet(sc, e.kind)}

\* the Scope keeps every entry whose write failed, and the file of a
\* completed write holds the ones whose earlier write had failed
FailedWritesKept ==
    /\ Held(persisted.unsaved, scope) = persisted.unsaved
    /\ Held(persisted.recovered, scope) = persisted.recovered
    /\ persisted.status = "ok" =>
         Held(persisted.recovered, Deserialize(file.bytes).scope) = persisted.recovered

\* C15: a failure of create_dir_all, File::create, serialize or write_all in
\* a handler is swallowed: the handler goes on to its return with the Mutex
\* neither released early nor poisoned, the Scope keeps the entry the event
\* inserted, and the next write that completes leaves a file holding every
\* entry of the Scope, those of the events whose write failed included.
C15_PersistFailureSwallowed ==
    /\ []FailedWritesKept
    /\ [][\A t \in Threads :
            (tpc[t] \in {"create", "write"} /\ tpc'[t] # tpc[t] /\ pc' # "start") =>
              /\ tpc'[t] \in {"write", "unlock"}
              /\ scope' = scope
              /\ mutex_scope' = mutex_scope
              /\ ev[t].entry \in TargetSet(scope', ev[t].kind)]_vars
    /\ [][\A t \in Threads :
            (tpc[t] = "unlock" /\ tpc'[t] # tpc[t] /\ pc' # "start") =>
              /\ tpc'[t] = "idle"
              /\ mutex_scope' = [holder |-> 0, poisoned |-> FALSE]
              /\ scope' = scope]_vars
    /\ [][\A t \in Threads :
            WriteCompletes(t) =>
              /\ persisted'.recovered = persisted.unsaved
              /\ Held(persisted.unsaved, Deserialize(file'.bytes).scope)
                   = persisted.unsaved]_vars

\* a handler has completed its write after the write of an earlier event
\* with another entry had failed, and the file holds that earlier entry
C15_Witness ==
    \E t \in Threads :
      /\ tpc[t] = "unlock"
      /\ persisted.status = "ok"
      /\ \E e \in persisted.recovered :
           /\ e # Piece(ev[t])
           /\ e.entry \in TargetSet(Deserialize(file.bytes).scope, e.kind)

\* ------------------------------------------------------------------------
\* C16
\* ------------------------------------------------------------------------

\* the process goes on running in this step (it is not restarted)
SameRun == pc' # "start"

\* C16: once the Mutex is poisoned by the panic of a handler it stays so for
\* the rest of the run, no handler enters its critical section, and every
\* event delivered from then on is dropped: its handler returns to idle
\* without panicking, and neither the Scope nor the state file changes.
C16_PoisonedLockDropsEvents ==
    /\ [](mutex_scope.poisoned =>
            /\ mutex_scope.holder = 0
            /\ \A t \in Threads : ~InCriticalSection(t))
    /\ [][(mutex_scope.poisoned /\ SameRun) =>
            /\ mutex_scope'.poisoned
            /\ scope' = scope
            /\ file' = file
            /\ persisted' = persisted
            /\ \A t \in Threads :
                 (tpc[t] = "lock" /\ tpc'[t] # "lock") =>
                   /\ tpc'[t] = "idle"
                   /\ ev'[t] = Dropped]_vars

\* a handler has panicked holding the Mutex and the handler of a later event
\* has dropped that event and returned
C16_Witness ==
    /\ mutex_scope.poisoned
    /\ \E t, u \in Threads :
         /\ tpc[t] = "panicked"
         /\ tpc[u] = "idle"
         /\ ev[u] = Dropped

\* ------------------------------------------------------------------------
\* C17
\* ------------------------------------------------------------------------

\* nothing of the plugin has run: no call on a manager, no listener, no
\* Scope loaded, no handler started, no write attempted
Inert ==
    /\ calls = <<>>
    /\ ~listening
    /\ scope = DefaultScope
    /\ loaded = NotLoaded
    /\ persisted = NeverWritten
    /\ \A t \in Threads : tpc[t] = "idle" /\ ev[t] = NoEvent

\* C17: when app_data_dir() is None the plugin stays inert for the whole
\* run, whatever the host does: no forbid_file on the state file's path, no
\* replay call, no listener, no write of the state file; setup goes straight
\* to its successful end.
C17_NoAppDirInert ==
    /\ [](~app_dir => (Inert /\ pc \in {"start", "ready"}))
    /\ [][~app_dir => (file' = file /\ (pc' # pc => pc' \in {"start", "ready"}))]_vars

\* without an app-data directory setup is over, a state file of an earlier
\* run is on disk and the host has granted a path, and nothing was recorded
C17_Witness ==
    /\ ~app_dir
    /\ pc = "ready"
    /\ file.exists
    /\ Deserialize(file.bytes).ok
    /\ nCalls >= 1
    /\ fs_scope.allowed_patterns # {}
    /\ Inert

\* ------------------------------------------------------------------------
\* C18
\* ------------------------------------------------------------------------

\* C18: the acquisition of the Mutex never waits: a handler that has been
\* handed an event can always take its next step, to process the event or
\* to drop it, whatever the handler that holds the Mutex does, even if that
\* one never releases it.
C18_AcquisitionNeverWaits ==
    \A t \in Threads : tpc[t] = "lock" => ENABLED Lock(t)

\* ------------------------------------------------------------------------
\* C19
\* ------------------------------------------------------------------------

\* until setup is over there is no listener and no handler has started,
\* the listener is only registered once the file has been dealt with, and
\* the replay leaves the Scope as it was loaded
RehydratedBeforeListening ==
    /\ pc # "ready" =>
         /\ ~listening
         /\ \A t \in Threads : tpc[t] = "idle" /\ ev[t] = NoEvent
    /\ listening => (loaded.status # "none" /\ todoA = {} /\ todoF = {})
    /\ pc = "replay" => scope = loaded.scope
    /\ (SetupDone /\ nCalls = 0) => scope = loaded.scope

\* C19: the state file is read once per run and before the listener is
\* registered; no handler runs before setup is over, so the allow and forbid
\* calls of the replay are not recorded as events; once the listener is
\* registered the plugin makes no further call on the managers; and setup
\* does not write the state file.
C19_RehydrationOnceBeforeEvents ==
    /\ []RehydratedBeforeListening
    /\ [][(loaded' # loaded /\ SameRun) => (LoadStep /\ loaded = NotLoaded)]_vars
    /\ [][(pc # "ready" /\ SameRun) =>
            /\ file' = file
            /\ persisted' = persisted
            /\ tpc' = tpc
            /\ ev' = ev]_vars
    /\ [][(listening /\ SameRun) => (calls' = calls /\ loaded' = loaded)]_vars

\* setup is over after replaying allowed and forbidden entries of the file
\* on the managers; the Scope is the loaded one and nothing has been written
C19_Witness ==
    /\ SetupDone
    /\ loaded.status = "ok"
    /\ CallsBy("allowed", "fs") # {}
    /\ CallsBy("forbidden", "fs") # {}
    /\ fs_scope.allowed_patterns # {}
    /\ scope = loaded.scope
    /\ persisted = NeverWritten
    /\ file.bytes \in Encodings(loaded.scope)

\* ------------------------------------------------------------------------
\* C20
\* ------------------------------------------------------------------------

\* thread t records its event in this step
Records(t) == tpc[t] = "classify" /\ tpc'[t] = "create"

\* the entries of the Scope that are recorded for `path` in both sets
AllowedAndForbidden(sc, path) ==
    /\ EntriesFor(sc.allowed_paths, path) # {}
    /\ EntriesFor(sc.forbidden_paths, path) # {}

\* C20: while the listener is registered no step removes or alters an entry
\* of either set; a handler recording PathForbidden leaves allowed_paths as
\* it is and one recording PathAllowed leaves forbidden_paths as it is; so a
\* path allowed and then forbidden stays in allowed_paths, is written with
\* it, and at the next startup every loaded allowed entry, also one whose
\* path is forbidden as well, gets its allow call.
C20_SetsOnlyGrow ==
    /\ [][(listening /\ SameRun) =>
            /\ scope.allowed_paths \subseteq scope'.allowed_paths
            /\ scope.forbidden_paths \subseteq scope'.forbidden_paths]_vars
    /\ [][\A t \in Threads :
            Records(t) =>
              /\ scope' = Record(scope, ev[t].kind, ev'[t].entry)
              /\ ev[t].kind = "PathForbidden" =>
                   scope'.allowed_paths = scope.allowed_paths
              /\ ev[t].kind = "PathAllowed" =>
                   scope'.forbidden_paths = scope.forbidden_paths]_vars
    /\ [](SetupDone =>
            \A e \in loaded.scope.allowed_paths :
              \E i \in CallsBy("allowed", "fs") :
                /\ calls[i].path = e.path
                /\ IsAllowOp(calls[i].op))

\* a restarted process has loaded the file the previous session wrote after
\* recording one path, and nothing else, in both sets, and has replayed its
\* allowed entry
C20_Witness ==
    /\ nRestarts = 1
    /\ SetupDone
    /\ persisted.status = "ok"
    /\ loaded = [status |-> "ok", scope |-> persisted.scope]
    /\ \E p \in UserPaths :
         /\ AllowedAndForbidden(loaded.scope, p)
         /\ loaded.scope.allowed_paths = EntriesFor(loaded.scope.allowed_paths, p)
         /\ loaded.scope.forbidden_paths = EntriesFor(loaded.scope.forbidden_paths, p)
         /\ \E i \in CallsBy("allowed", "fs") : calls[i].path = p

====
